---- MODULE Spec2Model ----
(***************************************************************************)
(* A model of the report store of the Ejendomsbeskatning robot:            *)
(* robot_framework/sub_process/sqlite_process.py (class DocDatabase).      *)
(*                                                                         *)
(* The store is a SQLite file with two tables, reports(report_date,        *)
(* tax_year) and properties(property_number, report_id), both with the     *)
(* implicit rowid of SQLite.  Every DocDatabase method opens a connection  *)
(* of its own (Python sqlite3, default isolation level) and never closes   *)
(* it: rows inserted on a connection are pending until commit() and are    *)
(* discarded when the connection goes away without one.                    *)
(*                                                                         *)
(* Around the store the module models its callers: update_doc_database and *)
(* save_document (doc2archive_process.py), process(), get_email_tasks and  *)
(* handle_task (process.py), and the functions                             *)
(* MissingPaymentCase.append_entry (sap_process.py) and                    *)
(* should_skip_due_to_frozen_debt (structura_process.py).                  *)
(***************************************************************************)
EXTENDS Integers, Sequences, FiniteSets, TLC

(***************************************************************************)
(* Bounds of the model.                                                    *)
(***************************************************************************)
\* add_report_data is not called once the reports table holds this many rows
MaxReports == 2
\* add_report_data is not called with a property_list that would make the
\* properties table hold more rows than this
MaxProps == 2

\* the values the callers draw their arguments from
ReportDates == {"2024-05-01", "2024-06-01"}
TaxYears == {"2023", "2024"}
PropertyNumbers == {"000123", "000456"}
\* what search_property is called with: the numbers above, "000123" without
\* its leading zeros, and a prefix of it
SearchArguments == PropertyNumbers \cup {"123", "0001"}

\* the longest document list search_for_documents returns
MaxDocs == 2

\* the most mails get_email_tasks finds in the folder
MaxMails == 1

\* the most properties find_property returns for an address
MaxTaskProps == 2

\* the most calls of append_entry on one MissingPaymentCase
MaxAppends == 3

\* the longest frozen_debt_list should_skip_due_to_frozen_debt is called with
MaxDebts == 2

\* should_skip_due_to_frozen_debt: timedelta(days=3)
SkipDays == 3

\* save_document: for _ in range(3)
SaveAttempts == 3

\* the processes that run update_doc_database
Harvesters == {"h1", "h2"}

\* the rows of the doc2archive document table a search can return
ArchiveDocuments ==
    {[report_type |-> "EAENDR", report_date |-> "2024-05-01", tax_year |-> "2024"],
     [report_type |-> "EAENDR", report_date |-> "2024-05-01", tax_year |-> "2023"],
     [report_type |-> "OTHER", report_date |-> "2024-06-01", tax_year |-> "2024"]}

\* the schema objects _create_tables creates
SchemaObjects == {"reports", "properties", "property_number_index"}

VARIABLES
    schema,       \* the schema objects that exist at database_path
    reports,      \* committed rows of table reports, in rowid order
    properties,   \* committed rows of table properties, in rowid order
    instance,     \* TRUE once a DocDatabase object has been constructed
    ret,          \* the last DocDatabase call: its name, its arguments (of
                  \* add_report_data the key), and its outcome: what it
                  \* returned or, for add_report_data, how many of the call's
                  \* INSERT statements were executed
    ingested,     \* history: the arguments of the add_report_data calls that returned
    harvest,      \* per harvester process: where its update_doc_database is
    task,         \* the run of handle_task: its position, the properties found,
                  \* the search_property calls made (history), the html divs
                  \* built, the calls made after the loop, the email sent,
                  \* whether the task mail is deleted, and how it ended
    run,          \* the run of process(): its position, the mails fetched,
                  \* the tasks get_email_tasks returned and the tasks handled
    saving,       \* a call of save_document: its arguments, the rows its
                  \* attempts copied (history), whether the export was
                  \* triggered and the file written, and how it ended
    payment_case, \* a MissingPaymentCase: its entries, and the entries
                  \* append_entry was called with (history)
    frozen        \* a call of should_skip_due_to_frozen_debt: the current
                  \* time, the list it was called with and what it returned

store_vars == <<schema, reports, properties, instance, ret, ingested>>
function_vars == <<saving, payment_case, frozen>>
caller_vars == <<harvest, task, run, saving, payment_case, frozen>>
vars == <<schema, reports, properties, instance, ret, ingested, harvest, task,
          run, saving, payment_case, frozen>>

(***************************************************************************)
(* Helpers on sequences.                                                   *)
(***************************************************************************)
SeqsUpTo(S, n) == UNION {[1..k -> S] : k \in 0..n}

RECURSIVE MaxRowId(_)
MaxRowId(table) ==
    IF table = <<>> THEN 0
    ELSE LET m == MaxRowId(Tail(table))
         IN IF Head(table).rowid > m THEN Head(table).rowid ELSE m

\* SQLite gives a row of a rowid table the largest rowid in use plus one
NextRowId(table) == MaxRowId(table) + 1

(***************************************************************************)
(* A connection: the committed tables it was opened on and the rows its    *)
(* open transaction has inserted.                                          *)
(***************************************************************************)
Connect ==
    [reports |-> reports, properties |-> properties,
     pending_reports |-> <<>>, pending_properties |-> <<>>, lastrowid |-> 0]

\* the tables as the connection itself sees them
ViewReports(conn) == conn.reports \o conn.pending_reports
ViewProperties(conn) == conn.properties \o conn.pending_properties


\* the same INSERT on a connection in autocommit mode (isolation_level=None):
\* the row is committed by the statement itself
ExecuteInsertReport_autocommit(conn, report_date, tax_year) ==
    LET id == NextRowId(ViewReports(conn))
    IN [conn EXCEPT
          !.reports = Append(@, [rowid |-> id, report_date |-> report_date,
                                 tax_year |-> tax_year]),
          !.lastrowid = id]

\* INSERT OR IGNORE INTO reports with a UNIQUE (report_date, tax_year): a key
\* that is stored already is skipped without an error
ExecuteInsertReport_or_ignore(conn, report_date, tax_year) ==
    LET id == NextRowId(ViewReports(conn))
    IN IF \E i \in 1..Len(ViewReports(conn)) :
             /\ ViewReports(conn)[i].report_date = report_date
             /\ ViewReports(conn)[i].tax_year = tax_year
       THEN conn
       ELSE [conn EXCEPT
               !.pending_reports = Append(@, [rowid |-> id, report_date |-> report_date,
                                              tax_year |-> tax_year]),
               !.lastrowid = id]

\* cursor.execute("INSERT INTO reports (report_date, tax_year) VALUES (?, ?)"):
\* the row is pending on the connection, cursor.lastrowid is its rowid
ExecuteInsertReport(conn, report_date, tax_year) ==
    LET id == NextRowId(ViewReports(conn))
    IN [conn EXCEPT
          !.pending_reports = Append(@, [rowid |-> id, report_date |-> report_date,
                                         tax_year |-> tax_year]),
          !.lastrowid = id]

\* cursor.execute("INSERT INTO properties (property_number, report_id) VALUES (?, ?)")
ExecuteInsertProperty(conn, property, report_id) ==
    LET id == NextRowId(ViewProperties(conn))
    IN [conn EXCEPT
          !.pending_properties = Append(@, [rowid |-> id, property_number |-> property,
                                            report_id |-> report_id]),
          !.lastrowid = id]

\* connection.commit(): the pending rows become the committed tables
Commit(conn) ==
    [reports |-> ViewReports(conn), properties |-> ViewProperties(conn)]

\* the connection goes away without commit(): SQLite rolls its transaction back
Abandon(conn) ==
    [reports |-> conn.reports, properties |-> conn.properties]

(***************************************************************************)
(* _create_tables                                                          *)
(***************************************************************************)
\* CREATE TABLE IF NOT EXISTS / CREATE INDEX IF NOT EXISTS on a database
\* db = [schema, reports, properties, error]: an object that exists is left
\* alone, a new table starts empty; error is set by a statement that raises
\* a plain CREATE TABLE: sqlite3.OperationalError when the object exists
CreatePlain(db, name) ==
    IF name \in db.schema THEN [db EXCEPT !.error = TRUE]
    ELSE IF name = "reports"
         THEN [db EXCEPT !.schema = @ \cup {name}, !.reports = <<>>]
    ELSE IF name = "properties"
         THEN [db EXCEPT !.schema = @ \cup {name}, !.properties = <<>>]
    ELSE [db EXCEPT !.schema = @ \cup {name}]

CreateIfNotExists(db, name) ==
    IF name \in db.schema THEN db
    ELSE IF name = "reports"
         THEN [db EXCEPT !.schema = @ \cup {name}, !.reports = <<>>]
    ELSE IF name = "properties"
         THEN [db EXCEPT !.schema = @ \cup {name}, !.properties = <<>>]
    ELSE [db EXCEPT !.schema = @ \cup {name}]

\* only the first CREATE TABLE is run
create_tables_reports_only(db) == CreateIfNotExists(db, "reports")

\* DROP TABLE IF EXISTS before every CREATE
create_tables_drop_first(db) ==
    [schema |-> SchemaObjects, reports |-> <<>>, properties |-> <<>>,
     error |-> db.error]

create_tables(db) ==
    CreateIfNotExists(
        CreateIfNotExists(
            CreateIfNotExists(db, "reports"),
            "properties"),
        "property_number_index")

\* _create_tables raises after `created` of its three CREATE statements: a
\* CREATE is not part of a transaction, what it made stays
create_tables_partial(db, created) ==
    IF created = 0 THEN db
    ELSE IF created = 1 THEN CreateIfNotExists(db, "reports")
    ELSE IF created = 2
         THEN CreateIfNotExists(CreateIfNotExists(db, "reports"), "properties")
    ELSE create_tables(db)

(***************************************************************************)
(* add_report_data                                                         *)
(***************************************************************************)
RECURSIVE InsertProperties_dedup(_, _, _, _)
\* "for property in property_list", skipping a number seen earlier in the list
InsertProperties_dedup(conn, property_list, report_id, n) ==
    IF n = 0 THEN conn
    ELSE IF \E k \in 1..(n - 1) : property_list[k] = property_list[n]
         THEN InsertProperties_dedup(conn, property_list, report_id, n - 1)
         ELSE ExecuteInsertProperty(
                  InsertProperties_dedup(conn, property_list, report_id, n - 1),
                  property_list[n], report_id)

RECURSIVE InsertProperties(_, _, _, _)
\* the first n iterations of "for property in property_list"
InsertProperties(conn, property_list, report_id, n) ==
    IF n = 0 THEN conn
    ELSE ExecuteInsertProperty(
             InsertProperties(conn, property_list, report_id, n - 1),
             property_list[n], report_id)

\* report_id = cursor.rowcount: 1 after an INSERT
LastRowId_rowcount(conn) == 1

\* report_id = connection.cursor().lastrowid: a cursor that inserted nothing
LastRowId_fresh_cursor(conn) == 0

\* report_id = cursor.lastrowid, read right after the INSERT INTO reports
LastRowId(conn) == conn.lastrowid

\* the statements of add_report_data before commit(), of which the first
\* `executed` INSERTs complete (all of them: Len(property_list) + 1)
AddReportDataBody(conn, report_date, tax_year, property_list, executed) ==
    IF executed = 0 THEN conn
    ELSE LET c1 == ExecuteInsertReport(conn, report_date, tax_year)
             report_id == LastRowId(c1)
         IN InsertProperties(c1, property_list, report_id, executed - 1)

\* connection.commit() as the last statement of the loop body
AddReportDataResult_commit_in_loop(report_date, tax_year, property_list) ==
    LET conn == AddReportDataBody(Connect, report_date, tax_year, property_list,
                                  Len(property_list) + 1)
    IN IF property_list = <<>> THEN Abandon(conn) ELSE Commit(conn)

\* add_report_data looks the key up inside its transaction and stores nothing
\* for a key that is stored
AddReportDataResult_unless_stored(report_date, tax_year, property_list) ==
    IF \E k \in 1..Len(reports) :
           /\ reports[k].report_date = report_date
           /\ reports[k].tax_year = tax_year
    THEN [reports |-> reports, properties |-> properties]
    ELSE Commit(AddReportDataBody(Connect, report_date, tax_year, property_list,
                                  Len(property_list) + 1))

\* the committed tables after a call of add_report_data that returns
AddReportDataResult(report_date, tax_year, property_list) ==
    Commit(AddReportDataBody(Connect, report_date, tax_year, property_list,
                             Len(property_list) + 1))

\* a failed call is run a second time inside add_report_data, and commits
AddReportDataFailure_retry(report_date, tax_year, property_list, executed) ==
    Commit(AddReportDataBody(Connect, report_date, tax_year, property_list,
                             Len(property_list) + 1))

\* the committed tables after a call of add_report_data that raises once
\* `executed` INSERTs have completed: commit() is never reached (or fails)
AddReportDataFailure(report_date, tax_year, property_list, executed) ==
    Abandon(AddReportDataBody(Connect, report_date, tax_year, property_list,
                              executed))

(***************************************************************************)
(* is_report_in_database                                                   *)
(***************************************************************************)
\* WHERE report_date = ? OR tax_year = ?
ReportMatches_either(row, report_date, tax_year) ==
    row.report_date = report_date \/ row.tax_year = tax_year

\* WHERE report_date = ? AND tax_year = ?
ReportMatches(row, report_date, tax_year) ==
    row.report_date = report_date /\ row.tax_year = tax_year

RECURSIVE SelectReports(_, _, _)
\* SELECT * FROM reports WHERE report_date = ? AND tax_year = ?  (fetchall)
SelectReports(table, report_date, tax_year) ==
    IF table = <<>> THEN <<>>
    ELSE (IF ReportMatches(Head(table), report_date, tax_year)
          THEN <<[report_date |-> Head(table).report_date,
                  tax_year |-> Head(table).tax_year]>>
          ELSE <<>>)
         \o SelectReports(Tail(table), report_date, tax_year)

\* return len(cursor.fetchall()) > 1
FetchedAny_more_than_one(rows) == Len(rows) > 1

\* return len(cursor.fetchall()) > 0
FetchedAny(rows) == Len(rows) > 0

IsReportInDatabaseResult(report_date, tax_year) ==
    FetchedAny(SelectReports(reports, report_date, tax_year))

(***************************************************************************)
(* search_property                                                         *)
(***************************************************************************)
\* the value of a string of digits as a number
DigitsValue(str) ==
    CASE str = "000123" -> 123
      [] str = "000456" -> 456
      [] str = "123" -> 123
      [] str = "0001" -> 1

\* property_number = ? on a column declared INTEGER: both sides are compared
\* as numbers
PropertyNumberMatches_numeric(stored, property_number) ==
    DigitsValue(stored) = DigitsValue(property_number)

\* WHERE property_number = ?  The column is declared without a type, so the
\* stored text is compared with the text argument byte by byte
PropertyNumberMatches(stored, property_number) == stored = property_number

\* dict_factory over explicitly selected columns
JoinedRow_three_columns(prop, rep) ==
    [property_number |-> prop.property_number,
     report_date |-> rep.report_date, tax_year |-> rep.tax_year]

\* dict_factory over SELECT *: the columns of properties, then of reports
JoinedRow(prop, rep) ==
    [property_number |-> prop.property_number, report_id |-> prop.report_id,
     report_date |-> rep.report_date, tax_year |-> rep.tax_year]

\* JOIN reports ON properties.rowid = reports.rowid
JoinOn_rowid(prop, rep) == prop.rowid = rep.rowid

\* JOIN reports ON properties.report_id = reports.rowid
JoinOn(prop, rep) == prop.report_id = rep.rowid

RECURSIVE JoinReports(_, _)
\* the rows of reports joined to one row of properties
JoinReports(prop, reps) ==
    IF reps = <<>> THEN <<>>
    ELSE (IF JoinOn(prop, Head(reps)) THEN <<JoinedRow(prop, Head(reps))>> ELSE <<>>)
         \o JoinReports(prop, Tail(reps))

RECURSIVE SelectJoin(_, _, _)
\* SELECT * FROM properties JOIN reports ON ... WHERE property_number = ?
SelectJoin(props, reps, property_number) ==
    IF props = <<>> THEN <<>>
    ELSE (IF PropertyNumberMatches(Head(props).property_number, property_number)
          THEN JoinReports(Head(props), reps) ELSE <<>>)
         \o SelectJoin(Tail(props), reps, property_number)

SearchPropertyResult(property_number) ==
    SelectJoin(properties, reports, property_number)

(***************************************************************************)
(* The state machine: one action per DocDatabase method and outcome.       *)
(***************************************************************************)
NoCall == [op |-> "none", args |-> <<>>, status |-> "ok", value |-> 0]

\* no handle_task has run
TaskIdle ==
    [pc |-> "idle", mail |-> 0, properties |-> <<>>, i |-> 0, searches |-> <<>>,
     html_div_list |-> <<>>, effects |-> <<>>, sent |-> "none",
     mail_deleted |-> FALSE, outcome |-> "none"]

\* save_document has not been called
SaveIdle ==
    [pc |-> "idle", document_data |-> <<>>, document_index |-> 0,
     copied |-> <<>>, exported |-> FALSE, file |-> FALSE, error |-> "none"]

\* MissingPaymentCase(title): entries is the empty list
EmptyCase == [entries |-> <<>>, appended |-> <<>>]

\* should_skip_due_to_frozen_debt has not been called
NotAsked == [pc |-> "idle"]

\* process() is not running
RunIdle == [pc |-> "none", mails |-> <<>>, tasks |-> <<>>, k |-> 0]

\* a process that is not inside update_doc_database; a process whose
\* update_doc_database ended with an exception keeps the documents and the
\* position of that pass, with pc "raised"
HarvesterIdle == [pc |-> "idle", documents |-> <<>>, i |-> 0]

Init ==
    /\ schema = {}
    /\ reports = <<>>
    /\ properties = <<>>
    /\ instance = FALSE
    /\ ret = NoCall
    /\ ingested = <<>>
    /\ harvest = [h \in Harvesters |-> HarvesterIdle]
    /\ task = TaskIdle
    /\ run = RunIdle
    /\ saving = SaveIdle
    /\ payment_case = EmptyCase
    /\ frozen = NotAsked

\* DocDatabase(database_path): __init__ runs _create_tables
DocDatabase_init ==
    LET db == create_tables([schema |-> schema, reports |-> reports,
                             properties |-> properties, error |-> FALSE])
    IN /\ schema' = db.schema
       /\ reports' = db.reports
       /\ properties' = db.properties
       /\ instance' = (instance \/ ~db.error)
       /\ ret' = [op |-> "__init__", args |-> <<>>,
                  status |-> IF db.error THEN "raised" ELSE "ok", value |-> 0]
       /\ UNCHANGED ingested

\* a call of add_report_data that returns
add_report_data(report_date, tax_year, property_list) ==
    /\ instance
    /\ Len(reports) < MaxReports
    /\ Len(properties) + Len(property_list) <= MaxProps
    /\ LET db == AddReportDataResult(report_date, tax_year, property_list)
       IN /\ reports' = db.reports
          /\ properties' = db.properties
    /\ ret' = [op |-> "add_report_data", args |-> <<report_date, tax_year>>,
               status |-> "ok",
               value |-> [executed |-> Len(property_list) + 1,
                          inserts |-> Len(property_list) + 1]]
    /\ ingested' = Append(ingested, [report_date |-> report_date, tax_year |-> tax_year,
                                     property_list |-> property_list])
    /\ UNCHANGED <<schema, instance>>

\* a call of add_report_data that raises (or is interrupted) after
\* `executed` INSERT statements
add_report_data_raises(report_date, tax_year, property_list, executed) ==
    /\ instance
    /\ Len(reports) < MaxReports
    /\ Len(properties) + Len(property_list) <= MaxProps
    /\ LET db == AddReportDataFailure(report_date, tax_year, property_list, executed)
       IN /\ reports' = db.reports
          /\ properties' = db.properties
    /\ ret' = [op |-> "add_report_data", args |-> <<report_date, tax_year>>,
               status |-> "raised",
               value |-> [executed |-> executed,
                          inserts |-> Len(property_list) + 1]]
    /\ UNCHANGED <<schema, instance, ingested>>

\* is_report_in_database as a get-or-create: a key that is not found is stored
is_report_in_database_creates(report_date, tax_year) ==
    /\ instance
    /\ ret' = [op |-> "is_report_in_database", args |-> <<report_date, tax_year>>,
               status |-> "ok",
               value |-> IsReportInDatabaseResult(report_date, tax_year)]
    /\ reports' = IF IsReportInDatabaseResult(report_date, tax_year) THEN reports
                  ELSE Append(reports, [rowid |-> NextRowId(reports),
                                        report_date |-> report_date,
                                        tax_year |-> tax_year])
    /\ UNCHANGED <<schema, properties, instance, ingested>>

is_report_in_database(report_date, tax_year) ==
    /\ instance
    /\ ret' = [op |-> "is_report_in_database", args |-> <<report_date, tax_year>>,
               status |-> "ok",
               value |-> IsReportInDatabaseResult(report_date, tax_year)]
    /\ UNCHANGED <<schema, reports, properties, instance, ingested>>

search_property(property_number) ==
    /\ instance
    /\ ret' = [op |-> "search_property", args |-> <<property_number>>,
               status |-> "ok", value |-> SearchPropertyResult(property_number)]
    /\ UNCHANGED <<schema, reports, properties, instance, ingested>>

PropertyLists == SeqsUpTo(PropertyNumbers, MaxProps)

Add ==
    \E d \in ReportDates, y \in TaxYears, pl \in PropertyLists :
        add_report_data(d, y, pl)

AddRaises ==
    \E d \in ReportDates, y \in TaxYears, pl \in PropertyLists :
        \E executed \in 0..(Len(pl) + 1) :
            add_report_data_raises(d, y, pl, executed)

Exists ==
    \E d \in ReportDates, y \in TaxYears : is_report_in_database(d, y)

Lookup ==
    \E p \in SearchArguments : search_property(p)

Next ==
    /\ UNCHANGED caller_vars
    /\ \/ DocDatabase_init
       \/ Add
       \/ AddRaises
       \/ Exists
       \/ Lookup

Spec == Init /\ [][Next]_vars

(***************************************************************************)
(* The single sequential caller that checks before it adds: add_report_data *)
(* is called only right after is_report_in_database returned False for the *)
(* same (report_date, tax_year).                                           *)
(***************************************************************************)
CheckedAbsent(report_date, tax_year) ==
    /\ ret.op = "is_report_in_database"
    /\ ret.args = <<report_date, tax_year>>
    /\ ret.value = FALSE

CheckedAdd ==
    \E d \in ReportDates, y \in TaxYears, pl \in PropertyLists :
        /\ CheckedAbsent(d, y)
        /\ add_report_data(d, y, pl)

CheckedAddRaises ==
    \E d \in ReportDates, y \in TaxYears, pl \in PropertyLists :
        \E executed \in 0..(Len(pl) + 1) :
            /\ CheckedAbsent(d, y)
            /\ add_report_data_raises(d, y, pl, executed)

NextChecked ==
    /\ UNCHANGED caller_vars
    /\ \/ DocDatabase_init
       \/ CheckedAdd
       \/ CheckedAddRaises
       \/ Exists
       \/ Lookup

SpecChecked == Init /\ [][NextChecked]_vars

TypeOK ==
    /\ schema \subseteq SchemaObjects
    /\ instance \in BOOLEAN
    /\ Len(reports) <= MaxReports
    /\ Len(properties) <= MaxProps
    /\ \A i \in 1..Len(reports) :
          /\ reports[i].report_date \in ReportDates
          /\ reports[i].tax_year \in TaxYears
    /\ \A i \in 1..Len(properties) :
          properties[i].property_number \in PropertyNumbers


(***************************************************************************)
(* The store with failing storage: sqlite3.connect or a statement of any   *)
(* method raises, and the method has no try/except: the caller gets the    *)
(* exception.                                                              *)
(***************************************************************************)
\* DocDatabase(database_path) raises after `created` CREATE statements: no
\* object is constructed
DocDatabase_init_raises(created) ==
    LET db == create_tables_partial([schema |-> schema, reports |-> reports,
                                     properties |-> properties, error |-> TRUE],
                                    created)
    IN /\ schema' = db.schema
       /\ reports' = db.reports
       /\ properties' = db.properties
       /\ ret' = [op |-> "__init__", args |-> <<>>, status |-> "raised",
                  value |-> created]
       /\ UNCHANGED <<instance, ingested>>

is_report_in_database_raises(report_date, tax_year) ==
    /\ instance
    /\ ret' = [op |-> "is_report_in_database", args |-> <<report_date, tax_year>>,
               status |-> "raised", value |-> 0]
    /\ UNCHANGED <<schema, reports, properties, instance, ingested>>

search_property_raises(property_number) ==
    /\ instance
    /\ ret' = [op |-> "search_property", args |-> <<property_number>>,
               status |-> "raised", value |-> 0]
    /\ UNCHANGED <<schema, reports, properties, instance, ingested>>

InitRaises == \E created \in 0..3 : DocDatabase_init_raises(created)

ExistsRaises ==
    \E d \in ReportDates, y \in TaxYears : is_report_in_database_raises(d, y)

LookupRaises ==
    \E p \in PropertyNumbers : search_property_raises(p)

NextFailures ==
    /\ UNCHANGED caller_vars
    /\ \/ DocDatabase_init
       \/ InitRaises
       \/ Add
       \/ AddRaises
       \/ Exists
       \/ ExistsRaises
       \/ Lookup
       \/ LookupRaises

SpecFailures == Init /\ [][NextFailures]_vars

(***************************************************************************)
(* The store with a caller that hands over an empty report_date or         *)
(* tax_year.  add_report_data does not look at its arguments before the    *)
(* INSERT, and the columns have no NOT NULL or CHECK constraint.            *)
(***************************************************************************)
EmptyString == ""

AddMalformed ==
    \E d \in ReportDates \cup {EmptyString}, y \in TaxYears \cup {EmptyString},
       pl \in PropertyLists :
        /\ (d = EmptyString \/ y = EmptyString)
        /\ add_report_data(d, y, pl)

NextMalformed ==
    /\ UNCHANGED caller_vars
    /\ \/ DocDatabase_init
       \/ Add
       \/ AddMalformed
       \/ Exists
       \/ Lookup

SpecMalformed == Init /\ [][NextMalformed]_vars

(***************************************************************************)
(* update_doc_database (doc2archive_process.py): the harvester.  One step  *)
(* evaluates the condition of the if for documents[i], the next one saves  *)
(* and parses the document and adds it.                                    *)
(***************************************************************************)
DocumentLists == SeqsUpTo(ArchiveDocuments, MaxDocs)

\* the condition with the call of is_report_in_database left out
ShouldIngest_type_only(doc) == doc.report_type = "EAENDR"

\* the condition with the test of doc.report_type left out
ShouldIngest_any_type(doc) ==
    ~IsReportInDatabaseResult(doc.report_date, doc.tax_year)

\* doc.report_type == "EAENDR" and not doc_database.is_report_in_database(...)
ShouldIngest(doc) ==
    /\ doc.report_type = "EAENDR"
    /\ ~IsReportInDatabaseResult(doc.report_date, doc.tax_year)

\* the loop moves on to documents[i + 1]; after the last document
\* update_doc_database returns
NextDocument(hv) ==
    IF hv.i + 1 > Len(hv.documents) THEN HarvesterIdle
    ELSE [hv EXCEPT !.pc = "loop", !.i = hv.i + 1]

\* documents = search_for_documents(14)
search_for_documents(h, documents) ==
    /\ instance
    /\ harvest[h].pc \in {"idle", "raised"}
    /\ harvest' = [harvest EXCEPT ![h] =
                      IF documents = <<>> THEN HarvesterIdle
                      ELSE [pc |-> "loop", documents |-> documents, i |-> 1]]
    /\ UNCHANGED store_vars

\* the if of the loop body; is_report_in_database is called for an EAENDR
\* document only
update_check(h) ==
    LET hv == harvest[h]
        doc == hv.documents[hv.i]
    IN /\ hv.pc = "loop"
       /\ IF doc.report_type = "EAENDR"
          THEN is_report_in_database(doc.report_date, doc.tax_year)
          ELSE UNCHANGED store_vars
       /\ harvest' = [harvest EXCEPT ![h] =
                         IF ShouldIngest(doc) THEN [hv EXCEPT !.pc = "ingest"]
                         ELSE NextDocument(hv)]

\* save_document, extract_pdf_values and add_report_data return
update_ingest(h, property_list) ==
    LET hv == harvest[h]
        doc == hv.documents[hv.i]
    IN /\ hv.pc = "ingest"
       /\ add_report_data(doc.report_date, doc.tax_year, property_list)
       /\ harvest' = [harvest EXCEPT ![h] = NextDocument(hv)]

\* the report is stored before its document is saved and parsed, and stays
\* when that raises
update_download_raises_report_first(h) ==
    LET hv == harvest[h]
        doc == hv.documents[hv.i]
    IN /\ hv.pc = "ingest"
       /\ Len(reports) < MaxReports
       /\ reports' = AddReportDataResult(doc.report_date, doc.tax_year, <<>>).reports
       /\ harvest' = [harvest EXCEPT ![h] = [hv EXCEPT !.pc = "raised"]]
       /\ UNCHANGED <<schema, properties, instance, ret, ingested>>

\* save_document or extract_pdf_values raises: update_doc_database ends with
\* the exception before it calls add_report_data
update_download_raises(h) ==
    /\ harvest[h].pc = "ingest"
    /\ harvest' = [harvest EXCEPT ![h] = [@ EXCEPT !.pc = "raised"]]
    /\ UNCHANGED store_vars

\* add_report_data raises: update_doc_database ends
update_add_raises(h, property_list, executed) ==
    LET hv == harvest[h]
        doc == hv.documents[hv.i]
    IN /\ hv.pc = "ingest"
       /\ add_report_data_raises(doc.report_date, doc.tax_year, property_list, executed)
       /\ harvest' = [harvest EXCEPT ![h] = [hv EXCEPT !.pc = "raised"]]

\* process(): the DocDatabase is constructed before update_doc_database runs
HarvesterConstruct ==
    /\ \A h \in Harvesters : harvest[h].pc \in {"idle", "raised"}
    /\ DocDatabase_init
    /\ UNCHANGED caller_vars

SearchForDocuments == \E docs \in DocumentLists : search_for_documents("h1", docs)

UpdateCheck == update_check("h1")

UpdateIngest == \E pl \in PropertyLists : update_ingest("h1", pl)

UpdateDownloadRaises == update_download_raises("h1")

UpdateAddRaises ==
    \E pl \in PropertyLists :
        \E executed \in 0..(Len(pl) + 1) : update_add_raises("h1", pl, executed)

NextHarvester ==
    /\ UNCHANGED <<task, run, function_vars>>
    /\ \/ HarvesterConstruct
       \/ SearchForDocuments
       \/ UpdateCheck
       \/ UpdateIngest
       \/ UpdateDownloadRaises
       \/ UpdateAddRaises

SpecHarvester == Init /\ [][NextHarvester]_vars

(***************************************************************************)
(* Two robot processes run update_doc_database against the same database   *)
(* file, each with a DocDatabase of its own: their steps interleave.  The   *)
(* archive does not change while a pass is running: a process that         *)
(* searches while the other one is in its loop is shown the same list, and *)
(* a report that was ingested before parses to the same property list.     *)
(* The passes run without a failure of the download or of the store.       *)
(***************************************************************************)
\* extract_pdf_values of the document with this key can give property_list
ParsesTo(doc, property_list) ==
    \A k \in 1..Len(ingested) :
        (ingested[k].report_date = doc.report_date
            /\ ingested[k].tax_year = doc.tax_year)
        => ingested[k].property_list = property_list

ConcurrentSearch ==
    \E h \in Harvesters, docs \in DocumentLists :
        /\ \A g \in Harvesters \ {h} :
               harvest[g].pc \in {"idle", "raised"} \/ harvest[g].documents = docs
        /\ search_for_documents(h, docs)

ConcurrentCheck == \E h \in Harvesters : update_check(h)

ConcurrentIngest ==
    \E h \in Harvesters, pl \in PropertyLists :
        /\ harvest[h].pc = "ingest"
        /\ ParsesTo(harvest[h].documents[harvest[h].i], pl)
        /\ update_ingest(h, pl)

NextConcurrent ==
    /\ UNCHANGED <<task, run, function_vars>>
    /\ \/ HarvesterConstruct
       \/ ConcurrentSearch
       \/ ConcurrentCheck
       \/ ConcurrentIngest

SpecConcurrent == Init /\ [][NextConcurrent]_vars

(***************************************************************************)
(* process() and handle_task (process.py): process() constructs the        *)
(* DocDatabase, runs update_doc_database, fetches the tasks with           *)
(* get_email_tasks and handles them one after the other.  An exception of  *)
(* any step ends process().                                                *)
(***************************************************************************)
FoundProperties == SeqsUpTo(PropertyNumbers, MaxTaskProps)

\* the mails get_emails_from_folder returns, after the filter on sender and
\* subject: of a mail the model keeps whether "Jeg kan ikke finde adressen i
\* udsøgningen" is "Valgt", and counts the delete_email calls made on it
MailLists ==
    SeqsUpTo({[cannot_find |-> b, delete_calls |-> 0] : b \in BOOLEAN}, MaxMails)

\* graph_mail.delete_email(mail, graph_access)
DeleteEmail(mails, m) == [mails EXCEPT ![m].delete_calls = @ + 1]

\* the loop of get_email_tasks over mails[m..]: the mail with "Valgt" is
\* deleted; a Task is appended for the mail in either case
RECURSIVE GetEmailTasksLoop(_, _, _)
GetEmailTasksLoop(mails, tasks, m) ==
    IF m > Len(mails) THEN [mails |-> mails, tasks |-> tasks]
    ELSE GetEmailTasksLoop(IF mails[m].cannot_find THEN DeleteEmail(mails, m)
                           ELSE mails,
                           Append(tasks, [mail |-> m]),
                           m + 1)

\* get_email_tasks(graph_access): the folder afterwards and the tasks returned
GetEmailTasks(mails) == GetEmailTasksLoop(mails, <<>>, 1)

\* mail_process.format_results(..., tax_adjustments=tax_adjustments)
FormatResultsCall(property_number, tax_adjustments) ==
    [template |-> "format_results", property_number |-> property_number,
     tax_adjustments |-> tax_adjustments]

\* pretty_template called without the result of search_property
PrettyTemplateCall_no_adjustments(property_number, tax_adjustments) ==
    [template |-> "pretty_template", property_number |-> property_number,
     tax_adjustments |-> <<>>]

\* mail_process.pretty_template(..., tax_adjustments=tax_adjustments, ...)
PrettyTemplateCall(property_number, tax_adjustments) ==
    [template |-> "pretty_template", property_number |-> property_number,
     tax_adjustments |-> tax_adjustments]

\* the calls of handle_task when find_property returned no properties
NoPropertiesSteps == <<"send_no_properties_email", "delete_email">>

\* the calls of handle_task after its loop
FileSteps ==
    <<"find_or_create_case", "upload_request", "send_email", "upload_result",
      "delete_email">>

\* the email a sequence of calls has sent
SentBy(effects) ==
    IF \E k \in 1..Len(effects) : effects[k] = "send_email" THEN "result"
    ELSE IF \E k \in 1..Len(effects) : effects[k] = "send_no_properties_email"
         THEN "no_properties"
         ELSE "none"

DeletedBy(effects) == \E k \in 1..Len(effects) : effects[k] = "delete_email"

\* handle_task runs the first n calls of steps and returns after the last
\* one; with n < Len(steps), call n + 1 raises
RunSteps(t, steps, n) ==
    LET effects == SubSeq(steps, 1, n)
    IN [t EXCEPT !.pc = "done",
                 !.effects = effects,
                 !.sent = SentBy(effects),
                 !.mail_deleted = DeletedBy(effects),
                 !.outcome = IF n = Len(steps) THEN "returned" ELSE "raised"]

\* process() after handle_task ended: an exception ends process()
RunAfterTask(t) ==
    [run EXCEPT !.pc = IF t.outcome = "raised" THEN "none" ELSE "tasks",
                !.mails = IF t.mail_deleted THEN DeleteEmail(@, t.mail) ELSE @]

\* handle_task(task = tasks[k + 1]) up to the loop: properties =
\* structura_process.find_property(task.address); without properties the
\* no-properties email is sent and the task mail deleted
handle_task_find(found, n) ==
    /\ run.pc = "tasks"
    /\ run.k < Len(run.tasks)
    /\ task.pc \in {"idle", "done"}
    /\ LET t0 == [TaskIdle EXCEPT !.mail = run.tasks[run.k + 1].mail]
           t1 == IF found = <<>> THEN RunSteps(t0, NoPropertiesSteps, n)
                 ELSE [t0 EXCEPT !.pc = "loop", !.properties = found, !.i = 1]
       IN /\ task' = t1
          /\ run' = [RunAfterTask(t1) EXCEPT !.k = @ + 1]
    /\ UNCHANGED store_vars

\* find_property raises (LookupError: no property matches the address)
handle_task_find_raises ==
    /\ run.pc = "tasks"
    /\ run.k < Len(run.tasks)
    /\ task.pc \in {"idle", "done"}
    /\ task' = [TaskIdle EXCEPT !.mail = run.tasks[run.k + 1].mail,
                                !.pc = "done", !.outcome = "raised"]
    /\ run' = [run EXCEPT !.pc = "none", !.k = @ + 1]
    /\ UNCHANGED store_vars

\* one iteration of "for property_ in properties" in which
\* should_skip_due_to_frozen_debt is True: handle_task returns
handle_task_skip ==
    /\ task.pc = "loop"
    /\ task' = [task EXCEPT !.pc = "done", !.outcome = "skipped"]
    /\ UNCHANGED run
    /\ UNCHANGED store_vars

\* one iteration of "for property_ in properties" in which a call raises
\* (get_owners, get_frozen_debt, get_tax_data, get_property_debt, ...)
handle_task_loop_raises ==
    /\ task.pc = "loop"
    /\ task' = [task EXCEPT !.pc = "done", !.outcome = "raised"]
    /\ run' = [run EXCEPT !.pc = "none"]
    /\ UNCHANGED store_vars

\* one iteration of "for property_ in properties" that runs to its end
handle_task_property ==
    LET property_number == task.properties[task.i]
        tax_adjustments == SearchPropertyResult(property_number)
    IN /\ task.pc = "loop"
       /\ search_property(property_number)
       /\ task' = [task EXCEPT
             !.searches = Append(@, [property_number |-> property_number,
                                     result |-> tax_adjustments]),
             !.html_div_list =
                 @ \o <<FormatResultsCall(property_number, tax_adjustments),
                        PrettyTemplateCall(property_number, tax_adjustments)>>,
             !.i = @ + 1,
             !.pc = IF task.i + 1 > Len(task.properties) THEN "file" ELSE "loop"]
       /\ UNCHANGED run

\* after the loop: the GO case, the upload of the request, send_email, the
\* upload of the result and delete_email; n of these calls return
handle_task_file(n) ==
    /\ task.pc = "file"
    /\ LET t1 == RunSteps(task, FileSteps, n)
       IN /\ task' = t1
          /\ run' = RunAfterTask(t1)
    /\ UNCHANGED store_vars

\* process() starts: doc_database = DocDatabase(arguments["doc_database_path"]);
\* the process before it has ended
process_start ==
    /\ \/ run.pc = "none"
       \/ run.pc = "tasks" /\ run.k = Len(run.tasks) /\ task.pc \in {"idle", "done"}
    /\ DocDatabase_init
    /\ run' = [RunIdle EXCEPT !.pc = "harvest"]
    /\ task' = TaskIdle
    /\ harvest' = [harvest EXCEPT !["h1"] = HarvesterIdle]

\* update_doc_database is entered with every step of it left to run
AfterHarvestStep_returns_at_once(hv) == "mail"

\* process() goes on to get_email_tasks when update_doc_database has returned
AfterHarvestStep(hv) == IF hv.pc = "idle" THEN "mail" ELSE "harvest"

\* doc2archive_process.update_doc_database(doc_database, ...): its steps
ProcessHarvest ==
    /\ run.pc = "harvest"
    /\ UNCHANGED task
    /\ \/ /\ \/ SearchForDocuments
             \/ UpdateCheck
             \/ UpdateIngest
          /\ run' = [run EXCEPT !.pc = AfterHarvestStep(harvest'["h1"])]
       \/ /\ \/ UpdateDownloadRaises
             \/ UpdateAddRaises
          /\ run' = [run EXCEPT !.pc = "none"]

\* tasks = get_email_tasks(graph_access); without tasks process() returns
get_email_tasks(mails) ==
    /\ run.pc = "mail"
    /\ LET fetched == GetEmailTasks(mails)
       IN run' = [pc |-> IF fetched.tasks = <<>> THEN "none" ELSE "tasks",
                  mails |-> fetched.mails, tasks |-> fetched.tasks, k |-> 0]
    /\ UNCHANGED <<store_vars, harvest, task>>

\* for task in tasks: handle_task(...)
ProcessTasks ==
    /\ UNCHANGED harvest
    /\ \/ \E found \in FoundProperties :
             \E n \in 0..Len(NoPropertiesSteps) : handle_task_find(found, n)
       \/ handle_task_find_raises
       \/ handle_task_skip
       \/ handle_task_loop_raises
       \/ handle_task_property
       \/ \E n \in 0..Len(FileSteps) : handle_task_file(n)

NextProcess ==
    /\ UNCHANGED function_vars
    /\ \/ process_start
       \/ ProcessHarvest
       \/ \E mails \in MailLists : get_email_tasks(mails)
       \/ ProcessTasks

SpecProcess == Init /\ [][NextProcess]_vars

(***************************************************************************)
(* save_document (doc2archive_process.py): scroll to the row, copy it,     *)
(* compare what it parses to with the requested document, up to three      *)
(* times; then the export.  What the copied row parses to is up to the     *)
(* user interface.                                                         *)
(***************************************************************************)
\* doc_data == document_data: the equality of the dataclass compares the
\* three fields
MetaDataEqual(a, b) ==
    /\ a.report_type = b.report_type
    /\ a.report_date = b.report_date
    /\ a.tax_year = b.tax_year

\* the loop without its else: after the last attempt the export follows
AfterAttempt_without_else(sv, doc_data) ==
    LET copied == Append(sv.copied, doc_data)
    IN IF MetaDataEqual(doc_data, sv.document_data) \/ Len(copied) = SaveAttempts
       THEN [sv EXCEPT !.copied = copied, !.pc = "export"]
       ELSE [sv EXCEPT !.copied = copied]

\* one pass of the loop body with the row parsed to doc_data: break on a
\* match; the else of the for raises RuntimeError after the last attempt
AfterAttempt(sv, doc_data) ==
    LET copied == Append(sv.copied, doc_data)
    IN IF MetaDataEqual(doc_data, sv.document_data)
       THEN [sv EXCEPT !.copied = copied, !.pc = "export"]
       ELSE IF Len(copied) = SaveAttempts
            THEN [sv EXCEPT !.copied = copied, !.pc = "raised",
                            !.error = "RuntimeError"]
            ELSE [sv EXCEPT !.copied = copied]

\* save_document(document_data, document_index) is called
save_document(document_data, document_index) ==
    /\ saving.pc \in {"idle", "returned", "raised"}
    /\ saving' = [SaveIdle EXCEPT !.pc = "attempt",
                                  !.document_data = document_data,
                                  !.document_index = document_index]

\* scroll_to_document, the copy and parse_document_data of one attempt
save_document_attempt(doc_data) ==
    /\ saving.pc = "attempt"
    /\ saving' = AfterAttempt(saving, doc_data)

\* nothing that parses was copied: parse_document_data raises (IndexError)
save_document_parse_raises ==
    /\ saving.pc = "attempt"
    /\ saving' = [saving EXCEPT !.pc = "raised", !.error = "IndexError"]

\* the click on DanPdfButton, the save dialog and the wait for the file
save_document_export ==
    /\ saving.pc = "export"
    /\ saving' = [saving EXCEPT !.pc = "returned", !.exported = TRUE,
                                !.file = TRUE]

\* the export was triggered and handle_save_dialog or wait_for_download
\* raises
save_document_export_raises ==
    /\ saving.pc = "export"
    /\ \E written \in BOOLEAN :
          saving' = [saving EXCEPT !.pc = "raised", !.exported = TRUE,
                                   !.file = written, !.error = "other"]

NextSaveDocument ==
    /\ UNCHANGED <<store_vars, harvest, task, run, payment_case, frozen>>
    /\ \/ \E doc \in ArchiveDocuments, index \in 0..(MaxDocs - 1) :
             save_document(doc, index)
       \/ \E doc_data \in ArchiveDocuments : save_document_attempt(doc_data)
       \/ save_document_parse_raises
       \/ save_document_export
       \/ save_document_export_raises

SpecSaveDocument == Init /\ [][NextSaveDocument]_vars

(***************************************************************************)
(* MissingPaymentCase.append_entry (sap_process.py).  Amounts are integers *)
(* here.                                                                   *)
(***************************************************************************)
EntryTitles == {"Ejendomsskat", "Renovation"}
EntryStatuses == {"Forfalden", "Rykket"}
EntryAmounts == {-1, 2}

\* MissingPaymentEntry(title, status, amount)
MissingPaymentEntries ==
    [title : EntryTitles, status : EntryStatuses, amount : EntryAmounts]

\* entries with the same title count as the same, whatever their status
SameEntry_title_only(old_entry, new_entry) ==
    old_entry.title = new_entry.title

\* old_entry.title == new_entry.title and old_entry.status == new_entry.status
SameEntry(old_entry, new_entry) ==
    /\ old_entry.title = new_entry.title
    /\ old_entry.status = new_entry.status

\* the loop of append_entry from entries[k] on: the amount is added to the
\* first entry that is the same and the method returns; after the loop the
\* entry is appended
RECURSIVE AppendEntryFrom(_, _, _)
AppendEntryFrom(entries, new_entry, k) ==
    IF k > Len(entries) THEN Append(entries, new_entry)
    ELSE IF SameEntry(entries[k], new_entry)
         THEN [entries EXCEPT ![k].amount = @ + new_entry.amount]
         ELSE AppendEntryFrom(entries, new_entry, k + 1)

\* case.append_entry(new_entry)
append_entry(new_entry) ==
    /\ Len(payment_case.appended) < MaxAppends
    /\ payment_case' =
          [entries |-> AppendEntryFrom(payment_case.entries, new_entry, 1),
           appended |-> Append(payment_case.appended, new_entry)]

\* case = MissingPaymentCase(title): a new case
MissingPaymentCase_init ==
    /\ payment_case # EmptyCase
    /\ payment_case' = EmptyCase

NextMissingPayment ==
    /\ UNCHANGED <<store_vars, harvest, task, run, saving, frozen>>
    /\ \/ \E new_entry \in MissingPaymentEntries : append_entry(new_entry)
       \/ MissingPaymentCase_init

SpecMissingPayment == Init /\ [][NextMissingPayment]_vars

(***************************************************************************)
(* should_skip_due_to_frozen_debt (structura_process.py).  A status is the *)
(* sequence of its characters; a point in time is a number of minutes, the *)
(* days counted as datetime counts them (proleptic Gregorian ordinal).     *)
(***************************************************************************)
Digits == {"0", "1", "2", "3", "4", "5", "6", "7", "8", "9"}

DigitOf(c) ==
    CASE c = "0" -> 0 [] c = "1" -> 1 [] c = "2" -> 2 [] c = "3" -> 3
      [] c = "4" -> 4 [] c = "5" -> 5 [] c = "6" -> 6 [] c = "7" -> 7
      [] c = "8" -> 8 [] c = "9" -> 9

\* "Indfrielse pr": the pattern up to its first dot
IndfrielsePr ==
    <<"I", "n", "d", "f", "r", "i", "e", "l", "s", "e", " ", "p", "r">>

\* the dot after "pr" in the pattern is not escaped: it matches every
\* character but a newline
AnyCharacter(c) == c # "\n"

\* pattern.match(status) for r"Indfrielse pr. (\d{2}\.\d{2}\.\d{4})": the
\* match is anchored at the start of the status, not at its end
PatternMatches(status) ==
    /\ Len(status) >= 25
    /\ SubSeq(status, 1, 13) = IndfrielsePr
    /\ AnyCharacter(status[14])
    /\ status[15] = " "
    /\ status[16] \in Digits /\ status[17] \in Digits
    /\ status[18] = "."
    /\ status[19] \in Digits /\ status[20] \in Digits
    /\ status[21] = "."
    /\ \A k \in 22..25 : status[k] \in Digits

\* re_match.group(1)
Group1(status) == SubSeq(status, 16, 25)

IsLeap(year) == (year % 4 = 0 /\ year % 100 # 0) \/ year % 400 = 0

DaysInMonth(month, year) ==
    IF month = 2 THEN (IF IsLeap(year) THEN 29 ELSE 28)
    ELSE IF month \in {4, 6, 9, 11} THEN 30 ELSE 31

RECURSIVE DaysBeforeMonth(_, _)
DaysBeforeMonth(month, year) ==
    IF month = 1 THEN 0
    ELSE DaysBeforeMonth(month - 1, year) + DaysInMonth(month - 1, year)

\* date.toordinal(): the number of the day, 1 for 01.01.0001
Ordinal(day, month, year) ==
    (year - 1) * 365 + (year - 1) \div 4 - (year - 1) \div 100
        + (year - 1) \div 400 + DaysBeforeMonth(month, year) + day

\* datetime.strptime(date_string, "%d.%m.%Y"): the fields of the date, and
\* whether they are a date (ValueError otherwise)
Strptime(date_string) ==
    LET day == 10 * DigitOf(date_string[1]) + DigitOf(date_string[2])
        month == 10 * DigitOf(date_string[4]) + DigitOf(date_string[5])
        year == 1000 * DigitOf(date_string[7]) + 100 * DigitOf(date_string[8])
                  + 10 * DigitOf(date_string[9]) + DigitOf(date_string[10])
        valid == /\ year >= 1
                 /\ month \in 1..12
                 /\ day >= 1
                 /\ day <= DaysInMonth(IF month \in 1..12 THEN month ELSE 1, year)
    IN [valid |-> valid, day |-> day, month |-> month, year |-> year]

\* a datetime as minutes: midnight of a day is 1440 times its ordinal
Minutes(day, month, year, minute) == Ordinal(day, month, year) * 1440 + minute

\* the loop of should_skip_due_to_frozen_debt over the statuses of the list
RECURSIVE ShouldSkipLoop(_, _)
ShouldSkipLoop(statuses, three_days_ago) ==
    IF statuses = <<>> THEN "False"
    ELSE IF ~PatternMatches(Head(statuses))
         THEN ShouldSkipLoop(Tail(statuses), three_days_ago)
         ELSE LET date == Strptime(Group1(Head(statuses)))
              IN IF ~date.valid THEN "ValueError"
                 ELSE IF three_days_ago < Minutes(date.day, date.month, date.year, 0)
                      THEN "True"
                      ELSE ShouldSkipLoop(Tail(statuses), three_days_ago)

\* what should_skip_due_to_frozen_debt(frozen_debt_list) returns, "True" or
\* "False", or the exception it raises, when datetime.today() is today
ShouldSkipResult(statuses, today) ==
    ShouldSkipLoop(statuses, today - SkipDays * 1440)

\* the values of datetime.today(): 02.03.2024 at 00:00 and at 12:00, and
\* 03.03.2024 at 12:00
Todays ==
    {Minutes(2, 3, 2024, 0), Minutes(2, 3, 2024, 720), Minutes(3, 3, 2024, 720)}

\* "Indfrielse pr" + c + " " + the date
Indfrielse(c, date) == IndfrielsePr \o <<c, " ">> \o date

\* the statuses get_frozen_debt reads
Statuses ==
    {Indfrielse(".", <<"2", "8", ".", "0", "2", ".", "2", "0", "2", "4">>),
     Indfrielse(".", <<"2", "9", ".", "0", "2", ".", "2", "0", "2", "4">>),
     Indfrielse(".", <<"0", "1", ".", "0", "1", ".", "2", "0", "2", "5">>)
         \o <<" ", "(", "d", "e", "l", "v", "i", "s", ")">>,
     Indfrielse(".", <<"3", "0", ".", "0", "2", ".", "2", "0", "2", "4">>),
     Indfrielse("X", <<"2", "9", ".", "0", "2", ".", "2", "0", "2", "4">>),
     <<" ">> \o Indfrielse(".", <<"2", "9", ".", "0", "2", ".", "2", "0", "2", "4">>),
     Indfrielse(".", <<"1", ".", "0", "3", ".", "2", "0", "2", "4", " ">>),
     <<"A", "c", "c", "e", "p", "t", "e", "r", "e", "t", " ", "m", "e", "d", " ",
       "i", "n", "d", "e", "f", "r", "y", "s", "n", "i", "n", "g">>}

\* should_skip_due_to_frozen_debt(frozen_debt_list) is called
should_skip_due_to_frozen_debt(statuses, today) ==
    LET result == ShouldSkipResult(statuses, today)
    IN frozen' = [pc |-> IF result = "ValueError" THEN "raised" ELSE "returned",
                  today |-> today, statuses |-> statuses, result |-> result]

NextFrozenDebt ==
    /\ UNCHANGED <<store_vars, harvest, task, run, saving, payment_case>>
    /\ \E statuses \in SeqsUpTo(Statuses, MaxDebts), today \in Todays :
          should_skip_due_to_frozen_debt(statuses, today)

SpecFrozenDebt == Init /\ [][NextFrozenDebt]_vars

(***************************************************************************)
(* Properties of the store.                                                *)
(***************************************************************************)
IsPrefix(s, t) == Len(s) <= Len(t) /\ SubSeq(t, 1, Len(s)) = s

Occurrences(property_list, p) ==
    Cardinality({k \in 1..Len(property_list) : property_list[k] = p})

\* how often property number p was handed over with key (d, y) by the
\* add_report_data calls that returned
RECURSIVE Mentions(_, _, _, _)
Mentions(log, p, d, y) ==
    IF log = <<>> THEN 0
    ELSE (IF Head(log).report_date = d /\ Head(log).tax_year = y
          THEN Occurrences(Head(log).property_list, p) ELSE 0)
         + Mentions(Tail(log), p, d, y)

KeyStored(d, y) ==
    \E i \in 1..Len(reports) :
        reports[i].report_date = d /\ reports[i].tax_year = y

AddReturned == ret.op = "add_report_data" /\ ret.status = "ok"
AddRaised == ret.op = "add_report_data" /\ ret.status = "raised"

\* C1: when every add_report_data call comes right after
\* is_report_in_database returned False for the same (report_date, tax_year),
\* no two rows of reports share both report_date and tax_year.
C1_UniqueKeys ==
    \A i, j \in 1..Len(reports) :
        (reports[i].report_date = reports[j].report_date
         /\ reports[i].tax_year = reports[j].tax_year) => i = j

\* two reports are stored, the second one by a checked add_report_data
C1_Witness ==
    /\ Len(reports) = 2
    /\ AddReturned
    /\ reports[1].report_date = reports[2].report_date

\* C2: a call of add_report_data that raises after the INSERT INTO reports
\* and before commit() has returned leaves the committed tables as they
\* were: no row of the call is stored, and is_report_in_database and
\* search_property answer as before the call (False for a key that was not
\* stored before).
C2_Atomic ==
    [][(ret'.op = "add_report_data" /\ ret'.status = "raised"
        /\ ret'.value.executed >= 1)
        => /\ reports' = reports
           /\ properties' = properties
           /\ \A d \in ReportDates, y \in TaxYears :
                 IsReportInDatabaseResult(d, y)' = IsReportInDatabaseResult(d, y)
           /\ (~KeyStored(ret'.args[1], ret'.args[2])
                 => ~FetchedAny(SelectReports(reports', ret'.args[1], ret'.args[2])))
           /\ \A p \in PropertyNumbers :
                 SearchPropertyResult(p)' = SearchPropertyResult(p)]_vars

\* a call failed between its two property INSERTs and its key is not stored
C2_Witness ==
    /\ AddRaised
    /\ ret.value.executed = 2
    /\ ret.value.inserts = 3
    /\ ~IsReportInDatabaseResult(ret.args[1], ret.args[2])
    /\ reports # <<>>
    /\ properties = <<>>

\* the records of a search_property result that carry (p, d, y)
CountRecords(result, p, d, y) ==
    Cardinality({k \in 1..Len(result) :
                    /\ result[k].property_number = p
                    /\ result[k].report_date = d
                    /\ result[k].tax_year = y})

\* C3: search_property(p) returns one record per stored mention of p, each
\* with the report_date and tax_year the mention was handed over with, and
\* nothing else; for a number that was never ingested it returns [].
C3_RoundTrip ==
    \A p \in PropertyNumbers :
        LET result == SearchPropertyResult(p)
        IN /\ \A k \in 1..Len(result) : result[k].property_number = p
           /\ \A d \in ReportDates, y \in TaxYears :
                 CountRecords(result, p, d, y) = Mentions(ingested, p, d, y)
           /\ ((\A i \in 1..Len(ingested) :
                    Occurrences(ingested[i].property_list, p) = 0)
                 => result = <<>>)

\* search_property found a number in two reports with different keys, one
\* record for each; another number was never ingested
C3_Witness ==
    /\ Len(ingested) = 2
    /\ ret.op = "search_property"
    /\ Len(ret.value) = 2
    /\ ret.value[1].report_date = ingested[1].report_date
    /\ ret.value[1].tax_year = ingested[1].tax_year
    /\ ret.value[2].report_date = ingested[2].report_date
    /\ ret.value[2].tax_year = ingested[2].tax_year
    /\ ret.value[1].report_date # ret.value[2].report_date
    /\ \E q \in PropertyNumbers : SearchPropertyResult(q) = <<>>

\* C4: is_report_in_database(report_date, tax_year) is True exactly when a
\* committed row of reports has that report_date and that tax_year; a row
\* that agrees in one field only does not count.
C4_ExistsIffStored ==
    /\ \A d \in ReportDates, y \in TaxYears :
          IsReportInDatabaseResult(d, y) <=> KeyStored(d, y)
    /\ (ret.op = "is_report_in_database"
          => (ret.value <=> KeyStored(ret.args[1], ret.args[2])))

\* is_report_in_database returned False although one report has the date
\* and another one has the tax year
C4_Witness ==
    /\ ret.op = "is_report_in_database"
    /\ ret.value = FALSE
    /\ \E i \in 1..Len(reports) :
          reports[i].report_date = ret.args[1] /\ reports[i].tax_year # ret.args[2]
    /\ \E i \in 1..Len(reports) :
          reports[i].report_date # ret.args[1] /\ reports[i].tax_year = ret.args[2]

\* C5: a call of add_report_data that returns appends one row to reports,
\* with the call's report_date and tax_year and a rowid no other report has,
\* and Len(property_list) rows to properties, the i-th with property_list[i]
\* and the rowid of the new report as report_id; the rows stored before are
\* unchanged.
C5_AddFrame ==
    [][(ret'.op = "add_report_data" /\ ret'.status = "ok")
        => LET property_list == ingested'[Len(ingested')].property_list
               new == reports'[Len(reports')]
           IN /\ Len(reports') = Len(reports) + 1
              /\ IsPrefix(reports, reports')
              /\ new.report_date = ret'.args[1]
              /\ new.tax_year = ret'.args[2]
              /\ \A i \in 1..Len(reports) : reports[i].rowid # new.rowid
              /\ Len(properties') = Len(properties) + Len(property_list)
              /\ IsPrefix(properties, properties')
              /\ \A i \in 1..Len(property_list) :
                    /\ properties'[Len(properties) + i].property_number = property_list[i]
                    /\ properties'[Len(properties) + i].report_id = new.rowid]_vars

\* the second report was added with a property, after a first one with a
\* property of its own
C5_Witness ==
    /\ AddReturned
    /\ Len(reports) = 2
    /\ Len(ingested[1].property_list) = 1
    /\ Len(ingested[2].property_list) = 1
    /\ Len(properties) = 2

\* C6: every row of properties has the rowid of exactly one row of reports
\* as its report_id, also after calls of add_report_data that raised.
C6_ReferentialIntegrity ==
    \A i \in 1..Len(properties) :
        Cardinality({j \in 1..Len(reports) :
                        reports[j].rowid = properties[i].report_id}) = 1

\* a call raised after a property INSERT while property rows are stored
C6_Witness ==
    /\ AddRaised
    /\ ret.value.executed >= 2
    /\ Len(reports) >= 1
    /\ properties # <<>>

\* C7: no step removes or changes a committed row: the tables before a step
\* are prefixes of the tables after it.
C7_AppendOnly ==
    [][IsPrefix(reports, reports') /\ IsPrefix(properties, properties')]_vars

\* a DocDatabase was constructed over stored rows
C7_Witness ==
    /\ ret.op = "__init__"
    /\ Len(reports) = MaxReports
    /\ properties # <<>>

\* C8: constructing a DocDatabase where the schema exists does not raise and
\* leaves the schema and every stored row as they were, so that
\* is_report_in_database and search_property answer as before.
C8_IdempotentInit ==
    [][(ret'.op = "__init__" /\ schema = SchemaObjects)
        => /\ ret'.status = "ok"
           /\ instance'
           /\ schema' = schema
           /\ reports' = reports
           /\ properties' = properties
           /\ \A d \in ReportDates, y \in TaxYears :
                 IsReportInDatabaseResult(d, y)' = IsReportInDatabaseResult(d, y)
           /\ \A p \in PropertyNumbers :
                 SearchPropertyResult(p)' = SearchPropertyResult(p)]_vars

\* a later DocDatabase sees a report and a property of an earlier one
C8_Witness ==
    /\ ret.op = "__init__"
    /\ ret.status = "ok"
    /\ reports # <<>>
    /\ \E d \in ReportDates, y \in TaxYears : IsReportInDatabaseResult(d, y)
    /\ \E p \in PropertyNumbers : SearchPropertyResult(p) # <<>>

\* the records of a search_property result that belong to one report
RecordsOfReport(result, report_id) ==
    Cardinality({k \in 1..Len(result) : result[k].report_id = report_id})

\* C9: after add_report_data returned, properties holds for every property
\* number as many rows of the new report as the number occurs in
\* property_list, and search_property returns that many records of it.
C9_DuplicatesKept ==
    AddReturned =>
        LET report_id == reports[Len(reports)].rowid
            property_list == ingested[Len(ingested)].property_list
        IN \A p \in PropertyNumbers :
              /\ Cardinality({i \in 1..Len(properties) :
                                 /\ properties[i].property_number = p
                                 /\ properties[i].report_id = report_id})
                    = Occurrences(property_list, p)
              /\ RecordsOfReport(SearchPropertyResult(p), report_id)
                    = Occurrences(property_list, p)

\* a property_list named one number twice and search_property returns two
\* records of that report for it
C9_Witness ==
    /\ AddReturned
    /\ Len(reports) = 2
    /\ Len(ingested[2].property_list) = 2
    /\ ingested[2].property_list[1] = ingested[2].property_list[2]
    /\ RecordsOfReport(SearchPropertyResult(ingested[2].property_list[1]),
                       reports[2].rowid) = 2

\* C10: add_report_data with an empty property_list stores the report row
\* and no property row: is_report_in_database is True for its key afterwards
\* and every search_property result is as before.
C10_EmptyList ==
    [][(ret'.op = "add_report_data" /\ ret'.status = "ok"
        /\ ret'.value.inserts = 1)
        => /\ Len(reports') = Len(reports) + 1
           /\ properties' = properties
           /\ FetchedAny(SelectReports(reports', ret'.args[1], ret'.args[2]))
           /\ \A p \in PropertyNumbers :
                 SearchPropertyResult(p)' = SearchPropertyResult(p)]_vars

\* add_report_data returned for an empty property_list, with a key that is
\* stored once and next to a report that has properties
C10_Witness ==
    /\ AddReturned
    /\ ingested[Len(ingested)].property_list = <<>>
    /\ Len(reports) = 2
    /\ properties # <<>>
    /\ IsReportInDatabaseResult(ret.args[1], ret.args[2])
    /\ reports[1].report_date # ret.args[1]

\* C11: is_report_in_database and search_property change nothing that is
\* stored: the schema and the committed rows after the call are those before.
C11_ReadsHaveNoEffect ==
    [][(ret'.op \in {"is_report_in_database", "search_property"})
        => /\ reports' = reports
           /\ properties' = properties
           /\ schema' = schema]_vars

\* both calls were made on stored rows: search_property found a record
C11_Witness ==
    /\ ret.op = "search_property"
    /\ ret.value # <<>>
    /\ Len(reports) = 2
    /\ \E d \in ReportDates, y \in TaxYears : ~IsReportInDatabaseResult(d, y)

\* C12: search_property returns a stored mention only for the very string it
\* was stored with: "000123" is found by "000123", not by "123", not by the
\* prefix "0001", not by any other string.
C12_ExactMatch ==
    /\ \A q \in SearchArguments :
          \A k \in 1..Len(SearchPropertyResult(q)) :
              SearchPropertyResult(q)[k].property_number = q
    /\ \A q \in SearchArguments :
          (SearchPropertyResult(q) # <<>>)
            <=> (\E i \in 1..Len(properties) : properties[i].property_number = q)
    /\ (ret.op = "search_property" /\ ret.args[1] \notin PropertyNumbers)
          => ret.value = <<>>

\* search_property("123") returned nothing while "000123" is stored and found
C12_Witness ==
    /\ ret.op = "search_property"
    /\ ret.args = <<"123">>
    /\ ret.value = <<>>
    /\ SearchPropertyResult("000123") # <<>>
    /\ SearchPropertyResult("0001") = <<>>

RowsWithKey(table, d, y) ==
    Cardinality({i \in 1..Len(table) :
                    table[i].report_date = d /\ table[i].tax_year = y})

\* C16: add_report_data does not reject a key that is stored already: a call
\* that returns adds a further report row with that key, so that two or more
\* rows share it, and the property rows of the call belong to the new row.
C16_NoDuplicateRejection ==
    [][(ret'.op = "add_report_data" /\ ret'.status = "ok"
        /\ KeyStored(ret'.args[1], ret'.args[2]))
        => LET new == reports'[Len(reports')]
               property_list == ingested'[Len(ingested')].property_list
           IN /\ Len(reports') = Len(reports) + 1
              /\ RowsWithKey(reports', ret'.args[1], ret'.args[2])
                    = RowsWithKey(reports, ret'.args[1], ret'.args[2]) + 1
              /\ RowsWithKey(reports', ret'.args[1], ret'.args[2]) >= 2
              /\ \A i \in 1..Len(reports) : reports[i].rowid # new.rowid
              /\ Len(properties') = Len(properties) + Len(property_list)
              /\ \A i \in (Len(properties) + 1)..Len(properties') :
                    properties'[i].report_id = new.rowid]_vars

\* add_report_data returned for a key that was stored: two rows share the
\* key and each has a property row of its own
C16_Witness ==
    /\ AddReturned
    /\ Len(reports) = 2
    /\ reports[1].report_date = reports[2].report_date
    /\ reports[1].tax_year = reports[2].tax_year
    /\ reports[1].rowid # reports[2].rowid
    /\ Len(properties) = 2
    /\ properties[1].report_id = reports[1].rowid
    /\ properties[2].report_id = reports[2].rowid

\* C17: a DocDatabase call whose storage fails raises to its caller and is
\* not tried again behind the caller's back: the reports stored are those of
\* the add_report_data calls that returned, a call that returned has executed
\* each of its INSERTs once and its report is stored, a call that raised has
\* stored nothing and has no return value.
C17_FailuresPropagate ==
    /\ Len(reports) = Len(ingested)
    /\ AddReturned
         => /\ ret.value.executed = ret.value.inserts
            /\ reports # <<>>
            /\ reports[Len(reports)].report_date = ret.args[1]
            /\ reports[Len(reports)].tax_year = ret.args[2]
            /\ Cardinality({i \in 1..Len(properties) :
                               properties[i].report_id = reports[Len(reports)].rowid})
                  = ret.value.inserts - 1
    /\ AddRaised => ret.value.executed <= ret.value.inserts
    /\ (ret.status = "raised" /\ ret.op \in {"is_report_in_database", "search_property"})
         => ret.value = 0

\* commit() of add_report_data raised after all INSERTs of the call, next
\* to a report that was stored before
C17_Witness ==
    /\ AddRaised
    /\ ret.value.executed = ret.value.inserts
    /\ ret.value.inserts = 2
    /\ Len(reports) = 1
    /\ ~IsReportInDatabaseResult(ret.args[1], ret.args[2])

\* C19: a DocDatabase object exists only once _create_tables has run to its
\* end, so every method finds the two tables and the index; on a location
\* where nothing was added is_report_in_database is False for every key and
\* search_property is [] for every number.
C19_InitialisedBeforeUse ==
    /\ instance => schema = SchemaObjects
    /\ (ret.op \in {"add_report_data", "is_report_in_database", "search_property"})
          => (instance /\ schema = SchemaObjects)
    /\ (instance /\ ingested = <<>>)
          => /\ \A d \in ReportDates, y \in TaxYears : ~IsReportInDatabaseResult(d, y)
             /\ \A q \in SearchArguments : SearchPropertyResult(q) = <<>>
    /\ (ingested = <<>> /\ ret.status = "ok" /\ ret.op = "is_report_in_database")
          => ret.value = FALSE
    /\ (ingested = <<>> /\ ret.status = "ok" /\ ret.op = "search_property")
          => ret.value = <<>>

\* search_property was called on a location where nothing was added
C19_Witness ==
    /\ instance
    /\ ingested = <<>>
    /\ ret.op = "search_property"
    /\ ret.status = "ok"
    /\ ret.value = <<>>

\* C18 as claimed: add_report_data with an empty report_date or tax_year
\* raises and stores nothing: no call with such a key returns, and no stored
\* report has an empty report_date or tax_year.
C18_MalformedRejected ==
    /\ (ret.op = "add_report_data"
          /\ (ret.args[1] = EmptyString \/ ret.args[2] = EmptyString))
         => ret.status = "raised"
    /\ \A i \in 1..Len(reports) :
          reports[i].report_date # EmptyString /\ reports[i].tax_year # EmptyString

\* C15: update_doc_database reaches add_report_data for a document only with
\* an EAENDR document whose key is_report_in_database has just found absent,
\* and the key is still absent when the report row is added, whatever was
\* ingested earlier in the pass; so no key is ever stored twice, and a
\* document whose key is stored adds nothing.
C15_CheckThenAdd ==
    /\ [](/\ \A i, j \in 1..Len(reports) :
               (reports[i].report_date = reports[j].report_date
                /\ reports[i].tax_year = reports[j].tax_year) => i = j
          /\ \A h \in Harvesters :
               harvest[h].pc = "ingest"
                 => LET doc == harvest[h].documents[harvest[h].i]
                    IN /\ doc.report_type = "EAENDR"
                       /\ ~KeyStored(doc.report_date, doc.tax_year)
                       /\ ret.op = "is_report_in_database"
                       /\ ret.args = <<doc.report_date, doc.tax_year>>
                       /\ ret.value = FALSE)
    /\ [][(reports' # reports)
            => \E h \in Harvesters :
                  /\ harvest[h].pc = "ingest"
                  /\ LET doc == harvest[h].documents[harvest[h].i]
                     IN /\ ~KeyStored(doc.report_date, doc.tax_year)
                        /\ reports' = Append(reports,
                                             [rowid |-> NextRowId(reports),
                                              report_date |-> doc.report_date,
                                              tax_year |-> doc.tax_year])]_vars

\* a pass over a list that names one document twice ingested it once: the
\* check of the second entry returned True and the pass ended
C15_Witness ==
    /\ ret.op = "is_report_in_database"
    /\ ret.value = TRUE
    /\ harvest["h1"].pc = "idle"
    /\ Len(reports) = 1
    /\ properties # <<>>

C21_HarvestBeforeTasks ==
    /\ [](/\ run.pc \in {"mail", "tasks"} => harvest["h1"].pc = "idle"
          /\ task.pc \in {"loop", "file"} => run.pc = "tasks"
          /\ run.pc = "tasks" =>
                \A k \in 1..Len(task.searches) :
                    task.searches[k].result
                        = SearchPropertyResult(task.searches[k].property_number))
    /\ [][/\ (reports' # reports \/ properties' # properties)
              => /\ run.pc = "harvest"
                 /\ task = TaskIdle
                 /\ task' = TaskIdle
          /\ (run.pc = "tasks" /\ run'.pc # "harvest")
              => UNCHANGED <<schema, reports, properties, ingested>>]_vars

\* a task of a run whose update_doc_database ingested a report has found the
\* report with search_property
C21_Witness ==
    /\ run.pc = "tasks"
    /\ run.k = 1
    /\ ingested # <<>>
    /\ task.pc = "file"
    /\ task.searches # <<>>
    /\ task.searches[1].result # <<>>

\* C22: with two harvesters on one store, an add_report_data call made after
\* is_report_in_database returned false stores one more report row with its
\* key, whatever the other harvester stored in between: nothing in the store
\* keeps the second of two racing harvesters from adding the key again.
C22_NoMutualExclusion ==
    [][ingested' # ingested =>
          LET added == ingested'[Len(ingested')]
          IN /\ \E h \in Harvesters :
                   /\ harvest[h].pc = "ingest"
                   /\ harvest'[h] # harvest[h]
                   /\ harvest[h].documents[harvest[h].i].report_date = added.report_date
                   /\ harvest[h].documents[harvest[h].i].tax_year = added.tax_year
             /\ RowsWithKey(reports', added.report_date, added.tax_year)
                   = RowsWithKey(reports, added.report_date, added.tax_year) + 1]_vars

\* both harvesters added the same key: two reports share it
C22_Witness ==
    \E d \in ReportDates, y \in TaxYears :
        /\ RowsWithKey(reports, d, y) = 2
        /\ Len(ingested) = 2
        /\ ingested[1].report_date = d /\ ingested[1].tax_year = y
        /\ ingested[2].report_date = d /\ ingested[2].tax_year = y

\* the document update_doc_database of harvester h1 is at
CurrentDocument == harvest["h1"].documents[harvest["h1"].i]

\* update_doc_database of h1 ended because save_document or
\* extract_pdf_values raised: the last call of the store is the
\* is_report_in_database that returned false for the document
DownloadRaised ==
    /\ harvest["h1"].pc = "raised"
    /\ ret.op = "is_report_in_database"

\* C23: when save_document or extract_pdf_values raises, update_doc_database
\* ends without a call of add_report_data for the document, the tables are
\* left as they were (the reports of the pass stay), and
\* is_report_in_database is still false for the failed report; a pass that
\* meets the report again while it is not stored goes on to ingest it, and
\* the ingestion that returns stores it.
C23_FailedIngestionRetried ==
    /\ [](DownloadRaised =>
             /\ ret.args = <<CurrentDocument.report_date, CurrentDocument.tax_year>>
             /\ ret.value = FALSE
             /\ ~IsReportInDatabaseResult(CurrentDocument.report_date,
                                          CurrentDocument.tax_year))
    /\ [][/\ (harvest["h1"].pc = "ingest" /\ harvest'["h1"].pc = "raised"
                 /\ ret'.op # "add_report_data")
              => UNCHANGED <<reports, properties, ingested, ret>>
          /\ (harvest["h1"].pc = "loop" /\ harvest'["h1"] # harvest["h1"]
                 /\ CurrentDocument.report_type = "EAENDR"
                 /\ ~KeyStored(CurrentDocument.report_date, CurrentDocument.tax_year))
              => /\ harvest'["h1"].pc = "ingest"
                 /\ harvest'["h1"].i = harvest["h1"].i
          /\ (harvest["h1"].pc = "ingest" /\ ingested' # ingested)
              => /\ RowsWithKey(reports', CurrentDocument.report_date,
                                 CurrentDocument.tax_year) = 1
                 /\ ret'.args = <<CurrentDocument.report_date, CurrentDocument.tax_year>>
         ]_vars

\* the pass ingested its first document and ended with the failed download
\* of its second one: the first report is stored, the second is not
C23_Witness ==
    /\ DownloadRaised
    /\ harvest["h1"].i = 2
    /\ Len(ingested) = 1
    /\ ingested[1].report_date = harvest["h1"].documents[1].report_date
    /\ ingested[1].tax_year = harvest["h1"].documents[1].tax_year
    /\ KeyStored(harvest["h1"].documents[1].report_date,
                 harvest["h1"].documents[1].tax_year)
    /\ ~KeyStored(CurrentDocument.report_date, CurrentDocument.tax_year)

\* the documents of the archive that are no EAENDR report and share their
\* key with no EAENDR report
OtherDocuments ==
    {doc \in ArchiveDocuments :
        /\ doc.report_type # "EAENDR"
        /\ \A e \in ArchiveDocuments :
              e.report_type = "EAENDR"
              => (e.report_date # doc.report_date \/ e.tax_year # doc.tax_year)}

\* C24: update_doc_database saves and adds EAENDR documents only: the step
\* for a document of another type calls nothing of the store and does not go
\* on to save_document, so the key of such a document is never stored and
\* is_report_in_database keeps returning false for it.
C24_OnlyEaendrIngested ==
    /\ [](/\ harvest["h1"].pc = "ingest" => CurrentDocument.report_type = "EAENDR"
          /\ \A doc \in OtherDocuments :
                /\ ~IsReportInDatabaseResult(doc.report_date, doc.tax_year)
                /\ RowsWithKey(ingested, doc.report_date, doc.tax_year) = 0)
    /\ [][(harvest["h1"].pc = "loop" /\ harvest'["h1"] # harvest["h1"]
              /\ CurrentDocument.report_type # "EAENDR")
            => /\ UNCHANGED store_vars
               /\ harvest'["h1"] = NextDocument(harvest["h1"])
               /\ harvest'["h1"].pc # "ingest"]_vars

\* the pass went past a document of another type without a call of the
\* store and is about to ingest the EAENDR document after it
C24_Witness ==
    /\ harvest["h1"].pc = "ingest"
    /\ harvest["h1"].i = 2
    /\ harvest["h1"].documents[1] \in OtherDocuments
    /\ reports = <<>>
    /\ ret.op = "is_report_in_database"
    /\ ret.args = <<CurrentDocument.report_date, CurrentDocument.tax_year>>

\* C25: no task that get_email_tasks returned refers to a mail that
\* get_email_tasks deleted, and delete_email is called at most once on a mail
\* during a run of process().
C25_DeletedMailsAreNoTasks ==
    /\ (run.pc = "tasks" /\ run.k = 0)
          => \A k \in 1..Len(run.tasks) :
                run.mails[run.tasks[k].mail].delete_calls = 0
    /\ \A m \in 1..Len(run.mails) : run.mails[m].delete_calls <= 1

\* the calls handle_task has made contain these calls in this order
RECURSIVE InOrder(_, _)
InOrder(effects, calls) ==
    IF calls = <<>> THEN TRUE
    ELSE IF effects = <<>> THEN FALSE
    ELSE IF Head(effects) = Head(calls) THEN InOrder(Tail(effects), Tail(calls))
    ELSE InOrder(Tail(effects), calls)

\* handle_task calls delete_email last, after the no-properties email or
\* after the upload of the request, the result email and the upload of the
\* result, and not at all when an earlier call raised
HandleTaskDeletesLast ==
    /\ task.mail_deleted
          => /\ task.outcome = "returned"
             /\ task.effects[Len(task.effects)] = "delete_email"
             /\ \/ InOrder(task.effects, <<"send_no_properties_email", "delete_email">>)
                \/ InOrder(task.effects, <<"upload_request", "send_email",
                                           "upload_result", "delete_email">>)
    /\ task.outcome = "raised" => ~task.mail_deleted

\* the mail of the task is in the folder: delete_email was not called on it
MailInFolder == run.mails[task.mail].delete_calls = 0

\* C26: handle_task deletes the task mail as its last step only, after a
\* reply went out; when a step of handle_task raised, the task mail is not
\* deleted and is still in the folder.
C26_DeleteIsLastStep ==
    /\ HandleTaskDeletesLast
    /\ (task.pc = "done" /\ task.outcome = "raised") => MailInFolder

\* C27: when should_skip_due_to_frozen_debt is true for a property,
\* handle_task returns at once: it sent no email, made no call for a GO case
\* or an upload and did not delete the task mail, which is still in the
\* folder.
C27_SkipLeavesTask ==
    task.outcome = "skipped"
        => /\ task.pc = "done"
           /\ task.effects = <<>>
           /\ task.sent = "none"
           /\ ~task.mail_deleted
           /\ MailInFolder

\* C26 and C27 for the tasks whose mail get_email_tasks left in the folder
TaskMailKeptUnlessReplied ==
    (task.pc # "idle" /\ ~run.mails[task.mail].cannot_find)
        => /\ C26_DeleteIsLastStep
           /\ C27_SkipLeavesTask

(***************************************************************************)
(* Properties of save_document, MissingPaymentCase and                     *)
(* should_skip_due_to_frozen_debt.                                         *)
(***************************************************************************)
\* no row copied by save_document parsed to the requested document
NoneMatched ==
    \A k \in 1..Len(saving.copied) :
        saving.copied[k] # saving.document_data

\* C28: save_document triggers the export only after an attempt whose row
\* parsed to exactly the requested document, makes at most 3 attempts, and
\* after 3 attempts without a match raises RuntimeError with no export
\* triggered and no file written.
C28_ExportOnlyOnMatch ==
    /\ Len(saving.copied) <= 3
    /\ (saving.pc = "export" \/ saving.exported \/ saving.file)
          => /\ saving.copied # <<>>
             /\ saving.copied[Len(saving.copied)] = saving.document_data
    /\ (Len(saving.copied) = 3 /\ NoneMatched)
          => /\ saving.pc = "raised"
             /\ saving.error = "RuntimeError"
    /\ saving.error = "RuntimeError"
          => /\ Len(saving.copied) = 3
             /\ NoneMatched
             /\ ~saving.exported
             /\ ~saving.file

\* three attempts copied rows of other documents: RuntimeError
C28_Witness ==
    /\ saving.pc = "raised"
    /\ saving.error = "RuntimeError"
    /\ Len(saving.copied) = 3
    /\ saving.copied[3].report_date = saving.document_data.report_date
    /\ saving.copied[3].tax_year # saving.document_data.tax_year

\* the sum of the amounts of the entries of log with this title and status
RECURSIVE SumAppended(_, _, _)
SumAppended(log, title, status) ==
    IF log = <<>> THEN 0
    ELSE (IF Head(log).title = title /\ Head(log).status = status
          THEN Head(log).amount ELSE 0)
         + SumAppended(Tail(log), title, status)

\* the positions of the entries of the case with this title and status
EntriesWith(title, status) ==
    {k \in 1..Len(payment_case.entries) :
        /\ payment_case.entries[k].title = title
        /\ payment_case.entries[k].status = status}

\* C29: after any sequence of append_entry calls on a case that started
\* empty no two entries of the case share title and status, a pair has an
\* entry exactly when an entry with it was appended, and the amount of that
\* entry is the sum of the amounts appended with the pair.
C29_EntriesMerged ==
    \A title \in EntryTitles, status \in EntryStatuses :
        /\ Cardinality(EntriesWith(title, status)) <= 1
        /\ (EntriesWith(title, status) # {})
              <=> (\E k \in 1..Len(payment_case.appended) :
                      /\ payment_case.appended[k].title = title
                      /\ payment_case.appended[k].status = status)
        /\ \A k \in EntriesWith(title, status) :
              payment_case.entries[k].amount
                  = SumAppended(payment_case.appended, title, status)

\* three appends, two of them with the same title and status and one with
\* the same title and another status: two entries
C29_Witness ==
    /\ Len(payment_case.appended) = 3
    /\ Len(payment_case.entries) = 2
    /\ payment_case.entries[1].title = payment_case.entries[2].title
    /\ payment_case.entries[1].amount = 4

\* the status starts with "Indfrielse pr. dd.mm.yyyy"
StartsWithIndfrielseDate(status) ==
    /\ Len(status) >= 25
    /\ SubSeq(status, 1, 15) = IndfrielsePr \o <<".", " ">>
    /\ \A k \in {16, 17, 19, 20, 22, 23, 24, 25} : status[k] \in Digits
    /\ status[18] = "." /\ status[21] = "."

\* the status starts with "Indfrielse pr. dd.mm.yyyy" and that date is later
\* than three days before today
RecentIndfrielse(status, today) ==
    /\ StartsWithIndfrielseDate(status)
    /\ LET date == Strptime(SubSeq(status, 16, 25))
       IN /\ date.valid
          /\ Minutes(date.day, date.month, date.year, 0) > today - 3 * 1440

\* C30: should_skip_due_to_frozen_debt returns true exactly when a status of
\* the list starts with "Indfrielse pr. dd.mm.yyyy" with a date later than
\* the current time minus 3 days, and false otherwise (for a list without
\* such a status, the empty list included).
C30_SkipIffRecentIndfrielse ==
    frozen.pc # "idle"
        => /\ frozen.pc = "returned"
           /\ frozen.result \in {"True", "False"}
           /\ frozen.result = "True"
                 <=> \E k \in 1..Len(frozen.statuses) :
                        RecentIndfrielse(frozen.statuses[k], frozen.today)

\* C30 for the lists in which every status that matches the pattern starts
\* with "Indfrielse pr. " and names a date of the calendar
SkipIffOnWellFormedStatuses ==
    (/\ frozen.pc # "idle"
     /\ \A k \in 1..Len(frozen.statuses) :
           PatternMatches(frozen.statuses[k])
           => /\ StartsWithIndfrielseDate(frozen.statuses[k])
              /\ Strptime(Group1(frozen.statuses[k])).valid)
        => C30_SkipIffRecentIndfrielse

====
